---- MODULE Spec2Model ----
(***************************************************************************)
(* A model of quickstart/app.py: a Flask service that loads a DistilBERT   *)
(* sequence classifier and its tokenizer when the module is imported and   *)
(* serves POST /predict.                                                    *)
(*                                                                          *)
(* The tokenizer and the classifier are library code.  They are modelled   *)
(* by what the calls of app.py ask of them: one token per character,       *)
(* [CLS]/[SEP] framing, truncation to the model's maximum length, padding  *)
(* of a batch to its longest row, a forward pass that scores each row from *)
(* its unmasked tokens, and torch's argmax over the flattened score        *)
(* tensor.  JSON strings travel in their escaped wire form.                *)
(***************************************************************************)
EXTENDS Integers, Sequences, FiniteSets, TLC

VARIABLES phase, model, tokenizer, gradEnabled, rng,
          request, response, call, handled, probe

vars == <<phase, model, tokenizer, gradEnabled, rng,
          request, response, call, handled, probe>>

----------------------------------------------------------------------------
(* Bounds of the model *)

\* longest text a client sends, in characters
MaxTextLen == 2

\* the artifact's maximum sequence length (512 for the reference artifact),
\* scaled down so that texts longer than it are sent
ModelMaxLength == 3

----------------------------------------------------------------------------
(* Characters, JSON values and their wire form *)

DQ == "\""
BS == "\\"

\* the characters of a client's text: a positive word, a negative word, and a
\* character JSON must escape
Alphabet == {"g", "b", DQ}

ClientTexts == UNION {[1..n -> Alphabet] : n \in 0..MaxTextLen}

\* texts used as the elements of a list-valued `text`
ListItems == {<<>>, <<"g">>, <<"b">>}

ClientLists == {<<a>> : a \in ListItems} \cup {<<a, b>> : a, b \in ListItems}

StrVal(s) == [type |-> "str", str |-> s, items |-> <<>>]
ListVal(l) == [type |-> "list", str |-> <<>>, items |-> l]
NullVal == [type |-> "null", str |-> <<>>, items |-> <<>>]
NumVal == [type |-> "num", str |-> <<>>, items |-> <<>>]

ClientValues ==
    {StrVal(s) : s \in ClientTexts} \cup {ListVal(l) : l \in ClientLists}
        \cup {NullVal, NumVal}

Escape(c) == IF c \in {DQ, BS} THEN <<BS, c>> ELSE <<c>>

RECURSIVE EscapeAll(_)
EscapeAll(s) == IF s = <<>> THEN <<>> ELSE Escape(Head(s)) \o EscapeAll(Tail(s))

\* a string as JSON text: quoted, with quotes and backslashes escaped
JsonEncodeString(s) == <<DQ>> \o EscapeAll(s) \o <<DQ>>

\* the characters of the JSON string starting at w[i], up to its closing quote
RECURSIVE Unescape(_, _)
Unescape(w, i) ==
    IF i > Len(w) THEN <<>>
    ELSE IF w[i] = DQ THEN <<>>
    ELSE IF w[i] = BS
         THEN IF i + 1 > Len(w) THEN <<>>
              ELSE <<w[i + 1]>> \o Unescape(w, i + 2)
    ELSE <<w[i]>> \o Unescape(w, i + 1)

JsonDecodeString(w) == IF w = <<>> THEN <<>> ELSE Unescape(w, 2)

JsonEncodeValue(v) ==
    [type |-> v.type,
     str |-> IF v.type = "str" THEN JsonEncodeString(v.str) ELSE <<>>,
     items |-> [i \in 1..Len(v.items) |-> JsonEncodeString(v.items[i])]]

JsonDecodeValue(w) ==
    [type |-> w.type,
     str |-> IF w.type = "str" THEN JsonDecodeString(w.str) ELSE <<>>,
     items |-> [i \in 1..Len(w.items) |-> JsonDecodeString(w.items[i])]]

----------------------------------------------------------------------------
(* Requests *)

NoValue == [type |-> "none", str |-> <<>>, items |-> <<>>]

\* a body that is not JSON at all, a JSON array, and JSON objects with or
\* without a "text" key
InvalidBody == [kind |-> "invalid", hasText |-> FALSE, text |-> NoValue]
ArrayBody == [kind |-> "array", hasText |-> FALSE, text |-> NoValue]
EmptyObject == [kind |-> "object", hasText |-> FALSE, text |-> NoValue]
ObjectWithText(v) == [kind |-> "object", hasText |-> TRUE, text |-> JsonEncodeValue(v)]

Bodies ==
    {InvalidBody, ArrayBody, EmptyObject} \cup {ObjectWithText(v) : v \in ClientValues}

OtherMethods == {"GET", "PUT", "OPTIONS"}

Requests ==
    {[method |-> "POST", body |-> b] : b \in Bodies}
        \cup {[method |-> m, body |-> b] : m \in OtherMethods, b \in {EmptyObject}}

NoRequest == [method |-> "none", body |-> InvalidBody]

----------------------------------------------------------------------------
(* The pretrained artifact: tokenizer and classifier *)

MODEL_NAME == "distilbert-base-uncased-finetuned-sst-2-english"

CLS == "[CLS]"
SEP == "[SEP]"
PAD == "[PAD]"

NoExc == "none"

\* the artifact's index-to-label mapping
Id2Label == (0 :> "NEGATIVE") @@ (1 :> "POSITIVE")

LabelSet(mdl) == {mdl.id2label[i] : i \in DOMAIN mdl.id2label}

\* the artifact's parameters are opaque: a per-class bias and the class each
\* word token votes for
Polarity == [t \in Alphabet \cup {CLS, SEP, PAD} |->
                IF t = "g" THEN 1 ELSE IF t = "b" THEN 0 ELSE -1]

WeightChoices == {[bias |-> b, polarity |-> Polarity] : b \in {<<0, 0>>, <<0, 1>>, <<1, 0>>}}

NoWeights == [bias |-> <<0, 0>>, polarity |-> Polarity]

NoModel ==
    [loaded |-> FALSE, name |-> "", id2label |-> Id2Label, weights |-> NoWeights,
     training |-> FALSE, max_position_embeddings |-> 0]

NoTokenizer == [loaded |-> FALSE, name |-> "", model_max_length |-> 0]

\* a classifier left in training mode, where dropout is active
ModelFromPretrainedTraining(name, w) ==
    [loaded |-> TRUE, name |-> name, id2label |-> Id2Label, weights |-> w,
     training |-> TRUE, max_position_embeddings |-> ModelMaxLength]

\* from_pretrained returns the classifier in evaluation mode
ModelFromPretrained(name, w) ==
    [loaded |-> TRUE, name |-> name, id2label |-> Id2Label, weights |-> w,
     training |-> FALSE, max_position_embeddings |-> ModelMaxLength]

TokenizerFromPretrained(name) ==
    [loaded |-> TRUE, name |-> name, model_max_length |-> ModelMaxLength]

Min(a, b) == IF a < b THEN a ELSE b

RECURSIVE MaxLenOf(_)
MaxLenOf(rows) ==
    IF rows = <<>> THEN 0
    ELSE LET m == MaxLenOf(Tail(rows)) IN
         IF Len(Head(rows)) > m THEN Len(Head(rows)) ELSE m

\* one token per character
Tokenize(s) == [i \in 1..Len(s) |-> s[i]]

\* a tokenizer call without truncation=True
TruncateNone(toks, maxLen) == toks

\* truncation=True: the row with its two special tokens fits the maximum length
Truncate(toks, maxLen) == SubSeq(toks, 1, Min(Len(toks), maxLen - 2))

EncodeRow(s, tok) == <<CLS>> \o Truncate(Tokenize(s), tok.model_max_length) \o <<SEP>>

\* padding=True: every row is padded to the longest row of the batch
PadIds(row, width) == [i \in 1..width |-> IF i <= Len(row) THEN row[i] ELSE PAD]
PadMask(row, width) == [i \in 1..width |-> IF i <= Len(row) THEN 1 ELSE 0]

NoInputs == [exc |-> NoExc, input_ids |-> <<>>, attention_mask |-> <<>>]

BatchEncode(batch, tok) ==
    LET rows == [i \in 1..Len(batch) |-> EncodeRow(batch[i], tok)]
        width == MaxLenOf(rows)
    IN [exc |-> NoExc,
        input_ids |-> [i \in 1..Len(rows) |-> PadIds(rows[i], width)],
        attention_mask |-> [i \in 1..Len(rows) |-> PadMask(rows[i], width)]]

\* tokenizer(text, return_tensors="pt", truncation=True, padding=True): a string
\* is a batch of one row, a list of strings a batch of several, anything else
\* is refused
TokenizerCall(tok, text) ==
    IF ~tok.loaded THEN [NoInputs EXCEPT !.exc = "NameError"]
    ELSE IF text.type = "str" THEN BatchEncode(<<text.str>>, tok)
    ELSE IF text.type = "list" THEN BatchEncode(text.items, tok)
    ELSE [NoInputs EXCEPT !.exc = "ValueError"]

\* dropout acts only in training mode and draws from torch's global generator
Dropped(mdl, r, i) == mdl.training /\ r /\ i = 2

RngAfterForward(mdl, r) == IF mdl.training THEN ~r ELSE r

RowScore(mdl, ids, mask, r, c) ==
    mdl.weights.bias[c + 1]
        + Cardinality({i \in 1..Len(ids) :
                          /\ mask[i] = 1
                          /\ ~Dropped(mdl, r, i)
                          /\ mdl.weights.polarity[ids[i]] = c})

NumLabels(mdl) == Cardinality(DOMAIN mdl.id2label)

\* model(**inputs).logits: one row of per-class scores per row of the batch;
\* a row longer than the position embeddings cannot be embedded
Forward(mdl, inputs, r) ==
    IF ~mdl.loaded THEN [exc |-> "NameError", logits |-> <<>>]
    ELSE IF MaxLenOf(inputs.input_ids) > mdl.max_position_embeddings
         THEN [exc |-> "IndexError", logits |-> <<>>]
    ELSE [exc |-> NoExc,
          logits |-> [b \in 1..Len(inputs.input_ids) |->
                        [k \in 1..NumLabels(mdl) |->
                            RowScore(mdl, inputs.input_ids[b],
                                     inputs.attention_mask[b], r, k - 1)]]]

RECURSIVE Flatten(_)
Flatten(rows) == IF rows = <<>> THEN <<>> ELSE Head(rows) \o Flatten(Tail(rows))

\* the smallest 0-based index of a maximal entry of a score vector
FirstMaxIndex(v) ==
    CHOOSE i \in 0..(Len(v) - 1) :
        /\ \A j \in 0..(Len(v) - 1) : v[j + 1] <= v[i + 1]
        /\ \A j \in 0..(i - 1) : v[j + 1] < v[i + 1]

\* logits.argmax().item(): argmax without dim is taken over the flattened tensor
ArgMax(logits) == FirstMaxIndex(Flatten(logits))

\* a lookup that falls back to a default label: id2label.get(idx, "UNKNOWN")
Id2LabelLookupDefault(mdl, idx) ==
    IF idx \in DOMAIN mdl.id2label
    THEN [exc |-> NoExc, val |-> mdl.id2label[idx]]
    ELSE [exc |-> NoExc, val |-> "UNKNOWN"]

\* model.config.id2label[predicted_class_id]
Id2LabelLookup(mdl, idx) ==
    IF idx \in DOMAIN mdl.id2label
    THEN [exc |-> NoExc, val |-> mdl.id2label[idx]]
    ELSE [exc |-> "KeyError", val |-> ""]

\* torch.set_grad_enabled(False) in place of the with block: nothing restores it
NoGradLeak(prev) == FALSE

\* leaving the torch.no_grad() block restores the grad mode found on entry
NoGradExit(prev) == prev

----------------------------------------------------------------------------
(* The request handler *)

NoResponse == [status |-> 0, kind |-> "none", text |-> NoValue, sentiment |-> ""]

NoCall ==
    [branch |-> "none", stage |-> "none", exc |-> NoExc, text |-> NoValue,
     inputs |-> NoInputs, logits |-> <<>>, predicted_class_id |-> -1]

\* request.get_json(): a body that is not JSON is a BadRequest
get_json(req) ==
    IF req.body.kind = "invalid"
    THEN [exc |-> "BadRequest", kind |-> "none", hasText |-> FALSE, text |-> NoValue]
    ELSE [exc |-> NoExc, kind |-> req.body.kind, hasText |-> req.body.hasText,
          text |-> JsonDecodeValue(req.body.text)]

\* a lookup without the default: data.get("text")
DictGetNoDefault(data, default) == IF data.hasText THEN data.text ELSE NullVal

\* data.get("text", ""): the value of the key, or the default when it is absent
DictGet(data, default) == IF data.hasText THEN data.text ELSE default

\* a jsonify that writes strings without escaping them
jsonifyUnescaped(text, res) ==
    [status |-> 200, kind |-> "classification",
     text |-> [type |-> text.type,
               str |-> IF text.type = "str" THEN <<DQ>> \o text.str \o <<DQ>> ELSE <<>>,
               items |-> [i \in 1..Len(text.items) |-> <<DQ>> \o text.items[i] \o <<DQ>>]],
     sentiment |-> res]

\* jsonify({"text": text, "sentiment": res})
jsonify(text, res) ==
    [status |-> 200, kind |-> "classification", text |-> JsonEncodeValue(text),
     sentiment |-> res]

\* Flask answers an HTTP exception with its status and any other exception
\* with 500
ErrorResponse(exc) ==
    [NoResponse EXCEPT !.status = IF exc = "BadRequest" THEN 400 ELSE 500,
                       !.kind = "error"]

Raised(c, exc, r, g) ==
    [response |-> ErrorResponse(exc), call |-> [c EXCEPT !.exc = exc],
     rng |-> r, grad |-> g]

\* the view function: what it answers, the steps it went through, and torch's
\* process-wide generator and grad mode when it is done
predict(req, mdl, tok, r, g) ==
    IF req.method = "POST" THEN
        LET c0 == [NoCall EXCEPT !.branch = "post", !.stage = "get_json"]
            data == get_json(req)
        IN
        IF data.exc # NoExc THEN Raised(c0, data.exc, r, g)
        ELSE IF data.kind # "object" THEN Raised(c0, "AttributeError", r, g)
        ELSE
        LET text == DictGet(data, StrVal(<<>>))
            c1 == [c0 EXCEPT !.stage = "tokenizer", !.text = text]
            inputs == TokenizerCall(tok, text)
        IN
        IF inputs.exc # NoExc THEN Raised(c1, inputs.exc, r, g)
        ELSE
        LET c2 == [c1 EXCEPT !.stage = "forward", !.inputs = inputs]
            out == Forward(mdl, inputs, r)
            r2 == RngAfterForward(mdl, r)
            g2 == NoGradExit(g)
        IN
        IF out.exc # NoExc THEN Raised(c2, out.exc, r2, g2)
        ELSE
        LET logits == out.logits
            predicted_class_id == ArgMax(logits)
            c3 == [c2 EXCEPT !.stage = "lookup", !.logits = logits,
                             !.predicted_class_id = predicted_class_id]
            res == Id2LabelLookup(mdl, predicted_class_id)
        IN
        IF res.exc # NoExc THEN Raised(c3, res.exc, r2, g2)
        ELSE [response |-> jsonify(text, res.val),
              call |-> [c3 EXCEPT !.stage = "return"],
              rng |-> r2, grad |-> g2]
    ELSE
        \* no return statement is reached: the view returns None
        Raised([NoCall EXCEPT !.branch = "fallthrough"], "TypeError", r, g)

\* a route that also lists GET: methods=["GET", "POST"]
RouteMethodsWithGet == {"GET", "POST"}

\* @app.route("/predict", methods=["POST"])
RouteMethods == {"POST"}

\* the router: OPTIONS is answered by Flask itself, a method the rule does not
\* list is answered 405, and only the rest reaches the view function
Dispatch(req, mdl, tok, r, g) ==
    IF req.method = "OPTIONS" /\ "OPTIONS" \notin RouteMethods
    THEN [response |-> [NoResponse EXCEPT !.status = 200, !.kind = "options"],
          call |-> NoCall, rng |-> r, grad |-> g]
    ELSE IF req.method \notin RouteMethods
    THEN [response |-> [NoResponse EXCEPT !.status = 405, !.kind = "error"],
          call |-> NoCall, rng |-> r, grad |-> g]
    ELSE predict(req, mdl, tok, r, g)

----------------------------------------------------------------------------
(* The process *)

\* a remembered answer: the text, its label, and whether other requests were
\* served since
NoProbe == [set |-> FALSE, text |-> <<>>, sentiment |-> "", others |-> FALSE]

\* a load failure that is caught and ignored: start-up goes on
OnLoadFailureIgnored(next) == next

\* an exception raised while the module is imported ends the process
OnLoadFailure(next) == "aborted"

Init ==
    /\ phase = "import"
    /\ model = NoModel
    /\ tokenizer = NoTokenizer
    /\ gradEnabled = TRUE
    /\ rng = FALSE
    /\ request = NoRequest
    /\ response = NoResponse
    /\ call = NoCall
    /\ handled = FALSE
    /\ probe = NoProbe

\* model = DistilBertForSequenceClassification.from_pretrained(MODEL_NAME)
LoadModel ==
    /\ phase = "import"
    /\ \E w \in WeightChoices :
          /\ model' = ModelFromPretrained(MODEL_NAME, w)
          /\ phase' = "model_loaded"
    /\ UNCHANGED <<tokenizer, gradEnabled, rng, request, response, call, handled, probe>>

LoadModelFails ==
    /\ phase = "import"
    /\ phase' = OnLoadFailure("model_loaded")
    /\ UNCHANGED <<model, tokenizer, gradEnabled, rng, request, response, call,
                   handled, probe>>

\* tokenizer = DistilBertTokenizer.from_pretrained(MODEL_NAME)
LoadTokenizer ==
    /\ phase = "model_loaded"
    /\ tokenizer' = TokenizerFromPretrained(MODEL_NAME)
    /\ phase' = "loaded"
    /\ UNCHANGED <<model, gradEnabled, rng, request, response, call, handled, probe>>

LoadTokenizerFails ==
    /\ phase = "model_loaded"
    /\ phase' = OnLoadFailure("loaded")
    /\ UNCHANGED <<model, tokenizer, gradEnabled, rng, request, response, call,
                   handled, probe>>

\* app.run(debug=False): the server starts accepting requests
AppRun ==
    /\ phase = "loaded"
    /\ phase' = "serving"
    /\ UNCHANGED <<model, tokenizer, gradEnabled, rng, request, response, call,
                   handled, probe>>

\* the text a client put in a request with a string `text`
ClientText(req) == JsonDecodeString(req.body.text.str)

HasStringText(req) ==
    req.method = "POST" /\ req.body.kind = "object" /\ req.body.hasText
        /\ req.body.text.type = "str"

\* one request, served from start to finish (the development server serves one
\* request at a time); probe may remember one answered text and its label
HandleRequest ==
    /\ phase = "serving"
    /\ \E req \in Requests :
        \E out \in {Dispatch(req, model, tokenizer, rng, gradEnabled)} :
        \E remember \in IF /\ ~probe.set
                            /\ HasStringText(req)
                            /\ out.response.kind = "classification"
                         THEN BOOLEAN ELSE {FALSE} :
          /\ request' = req
          /\ response' = out.response
          /\ call' = out.call
          /\ rng' = out.rng
          /\ gradEnabled' = out.grad
          /\ handled' = TRUE
          /\ probe' = IF remember
                      THEN [set |-> TRUE, text |-> ClientText(req),
                            sentiment |-> out.response.sentiment, others |-> FALSE]
                      ELSE IF probe.set /\ ~(HasStringText(req) /\ ClientText(req) = probe.text)
                      THEN [probe EXCEPT !.others = TRUE]
                      ELSE probe
    /\ UNCHANGED <<phase, model, tokenizer>>

Next ==
    \/ LoadModel
    \/ LoadModelFails
    \/ LoadTokenizer
    \/ LoadTokenizerFails
    \/ AppRun
    \/ HandleRequest

Spec == Init /\ [][Next]_vars

----------------------------------------------------------------------------
(* Properties *)

Answered == response.kind = "classification"

\* the `text` field a client reads from the response
ResponseText == JsonDecodeString(response.text.str)

\* C1: for a POST whose body is an object with a string `text`, the response
\* carries a `text` that is that string, character for character, whatever was
\* served before
C1_TextEchoed ==
    HasStringText(request) =>
        /\ Answered
        /\ response.text.type = "str"
        /\ ResponseText = ClientText(request)

\* C1 witness: after other requests, a text holding a character that JSON
\* escapes was answered
C1_Witness ==
    /\ HasStringText(request)
    /\ Answered
    /\ probe.set /\ probe.others
    /\ \E i \in 1..Len(ClientText(request)) : ClientText(request)[i] = DQ
    /\ Len(ClientText(request)) = MaxTextLen

\* C2: every response predict returns carries a sentiment that is a value of
\* the label mapping loaded with the model
C2_SentimentInLabelSet == Answered => response.sentiment \in LabelSet(model)

\* C2 witness: a list-valued `text` of two rows was answered
C2_Witness ==
    /\ Answered
    /\ request.body.text.type = "list"
    /\ Len(call.logits) > 1

\* C3: two answers to the same text carry the same sentiment, whichever
\* requests were served before or between them
C3_Deterministic ==
    (/\ probe.set
     /\ HasStringText(request)
     /\ ClientText(request) = probe.text)
        => (Answered /\ response.sentiment = probe.sentiment)

\* C3 witness: a non-empty text was answered, other requests were served, and
\* the same text was answered again
C3_Witness ==
    /\ probe.set /\ probe.others
    /\ HasStringText(request)
    /\ ClientText(request) = probe.text
    /\ probe.text # <<>>
    /\ Answered

IsEmptyTextRequest(req) ==
    /\ req.method = "POST"
    /\ req.body.kind = "object"
    /\ \/ ~req.body.hasText
       \/ req.body.text.type = "str" /\ ClientText(req) = <<>>

\* C4: a POST whose object body omits `text`, or has the empty string as
\* `text`, raises nothing and is answered with the empty text and a label of
\* the label set
C4_EmptyTextAnswered ==
    IsEmptyTextRequest(request) =>
        /\ call.exc = NoExc
        /\ Answered
        /\ response.status = 200
        /\ response.text.type = "str"
        /\ ResponseText = <<>>
        /\ response.sentiment \in LabelSet(model)

\* C4 witness: the body {} was answered
C4_Witness ==
    /\ request.method = "POST"
    /\ request.body = EmptyObject
    /\ Answered

Loaded ==
    /\ model.loaded /\ model.name = MODEL_NAME
    /\ tokenizer.loaded /\ tokenizer.name = MODEL_NAME

\* C5: requests are handled only once the model and the tokenizer are loaded
\* from MODEL_NAME; a run whose load failed has handled no request and never
\* leaves the aborted state
C5_StartupOrdering ==
    /\ []((phase = "serving" \/ handled) => Loaded)
    /\ [](phase = "aborted" => ~handled)
    /\ [][phase = "aborted" => phase' = "aborted"]_vars

\* C5 witness: a request was handled, after both loads
C5_Witness == handled /\ Loaded /\ phase = "serving"

\* C6: the view function runs only for POST and always takes its POST branch;
\* a request with another method reaches none of its steps and gets no
\* classification response
C6_OnlyPost ==
    /\ call.branch # "none" => (request.method = "POST" /\ call.branch = "post")
    /\ request.method # "POST" => (call = NoCall /\ ~Answered)

\* C6 witness: a GET was turned away by the router
C6_Witness == request.method = "GET" /\ response.status = 405 /\ call = NoCall

IsLongTextRequest(req) ==
    /\ HasStringText(req)
    /\ Len(Tokenize(ClientText(req))) + 2 > tokenizer.model_max_length

\* C7: a text longer than the maximum sequence length is answered with a label
\* of the label set, and the rows handed to the model are no longer than the
\* maximum
C7_LongTextTruncated ==
    IsLongTextRequest(request) =>
        /\ call.stage = "return"
        /\ MaxLenOf(call.inputs.input_ids) <= tokenizer.model_max_length
        /\ response.status = 200
        /\ Answered
        /\ response.sentiment \in LabelSet(model)

\* C7 witness: a text of the greatest length was answered from a truncated row
C7_Witness ==
    /\ IsLongTextRequest(request)
    /\ Len(ClientText(request)) = MaxTextLen
    /\ Answered
    /\ Len(call.inputs.input_ids[1]) < Len(ClientText(request)) + 2

\* C8: once serving, no step changes the model, the tokenizer (the label
\* mapping with them), torch's generator or its grad mode
C8_NoSideEffects ==
    [][phase = "serving" =>
          /\ model' = model
          /\ tokenizer' = tokenizer
          /\ rng' = rng
          /\ gradEnabled' = gradEnabled
          /\ phase' = phase]_vars

\* C8 witness: a call that failed after its forward pass left the state as
\* loaded
C8_Witness ==
    /\ handled
    /\ call.stage = "lookup" /\ call.exc = "KeyError"
    /\ Loaded /\ gradEnabled /\ ~model.training

ReachedLookup == call.stage \in {"lookup", "return"}

\* C9: for every per-class score vector the forward pass produced, the
\* predicted index is the smallest index of a maximal score of that vector,
\* and the sentiment returned is the label of that index
C9_ArgmaxLowestIndex ==
    ReachedLookup =>
        \A b \in 1..Len(call.logits) :
            /\ call.predicted_class_id = FirstMaxIndex(call.logits[b])
            /\ Answered
            /\ response.sentiment = model.id2label[FirstMaxIndex(call.logits[b])]

\* C10: whenever the label lookup is reached, the index is a key of id2label,
\* whatever the JSON type of `text`
C10_IndexInRange ==
    ReachedLookup => call.predicted_class_id \in DOMAIN model.id2label

\* the lowest-index argmax on the requests the interface documents: with a
\* string `text` the forward pass yields one score vector
SingleVectorArgmax ==
    (ReachedLookup /\ Len(call.logits) = 1) =>
        /\ call.predicted_class_id = FirstMaxIndex(call.logits[1])
        /\ Answered
        /\ response.sentiment = model.id2label[call.predicted_class_id]

====
